---- MODULE Spec2Model ----
(***************************************************************************)
(* Expense tracker (FastAPI + SQLAlchemy): the expenses table, the six     *)
(* request handlers of main.py and the date-window arithmetic they use.    *)
(*                                                                         *)
(* Values.  A calendar date is a triple <<year, month, day>>.  A Float is  *)
(* counted in 1/200ths: the amounts used are multiples of 1/8 (25/200),    *)
(* which a double holds exactly and sums exactly, and round(x, 2) yields a *)
(* multiple of 1/100 (2/200), so equality of two Floats is equality of the *)
(* two counts.                                                             *)
(***************************************************************************)
EXTENDS Integers, FiniteSets, Sequences, TLC

VARIABLES store, nextId, resp, pc, req, sel, out

vars == <<store, nextId, resp, pc, req, sel, out>>

\* how many rows the id sequence hands out before the model stops creating
MaxExpenses == 2

None == <<>>

-----------------------------------------------------------------------------
(* datetime.date as main.py uses it: construction, ordinals, weekday.      *)

is_leap(y) == y % 4 = 0 /\ (y % 100 # 0 \/ y % 400 = 0)

days_in_month(y, m) ==
    IF m = 2 THEN (IF is_leap(y) THEN 29 ELSE 28)
    ELSE IF m \in {4, 6, 9, 11} THEN 30 ELSE 31

\* datetime._DAYS_BEFORE_MONTH, plus the leap day after February
days_before_month(y, m) ==
    <<0, 31, 59, 90, 120, 151, 181, 212, 243, 273, 304, 334, 365>>[m]
    + (IF m > 2 /\ is_leap(y) THEN 1 ELSE 0)

days_before_year(year) ==
    LET y == year - 1 IN y * 365 + (y \div 4) - (y \div 100) + (y \div 400)

\* date(year, month, day): the date, or ValueError outside MINYEAR..MAXYEAR,
\* 1..12, 1..days_in_month
ValueError == "ValueError"

date(y, m, d) ==
    IF y \in 1..9999 /\ m \in 1..12 /\ d \in 1..days_in_month(y, m)
    THEN <<y, m, d>> ELSE ValueError

toordinal(dt) == days_before_year(dt[1]) + days_before_month(dt[1], dt[2]) + dt[3]

\* date.fromordinal (datetime._ord2ymd)
fromordinal(ord) ==
    LET n0   == ord - 1
        n400 == n0 \div 146097
        r400 == n0 % 146097
        n100 == r400 \div 36524
        r100 == r400 % 36524
        n4   == r100 \div 1461
        r4   == r100 % 1461
        n1   == r4 \div 365
        n    == r4 % 365
        year == n400 * 400 + 1 + n100 * 100 + n4 * 4 + n1
        leap == n1 = 3 /\ (n4 # 24 \/ n100 = 3)
        m0   == (n + 50) \div 32
        p0   == days_before_month(IF leap THEN 2000 ELSE 2001, m0)
        month == IF p0 > n THEN m0 - 1 ELSE m0
        prec == days_before_month(IF leap THEN 2000 ELSE 2001, month)
    IN  IF n1 = 4 \/ n100 = 4 THEN <<year - 1, 12, 31>>
        ELSE <<year, month, n - prec + 1>>

\* date + timedelta(days = k)
plus_days(dt, k) == fromordinal(toordinal(dt) + k)

\* date.weekday(): Monday = 0 .. Sunday = 6
weekday(dt) == (toordinal(dt) + 6) % 7

\* the SQL comparisons on a Date column
date_ge(a, b) == toordinal(a) >= toordinal(b)
date_le(a, b) == toordinal(a) <= toordinal(b)
date_lt(a, b) == toordinal(a) < toordinal(b)

-----------------------------------------------------------------------------
(* Floats, SUM and round.                                                  *)

RECURSIVE SumAmount(_)
SumAmount(rows) ==
    IF rows = {} THEN 0
    ELSE LET r == CHOOSE x \in rows : TRUE
         IN  r.amount + SumAmount(rows \ {r})

\* func.sum(...) then .scalar(): SQL NULL (None) over no rows
sql_sum(rows) == IF rows = {} THEN None ELSE <<SumAmount(rows)>>

\* `result.scalar() or 0.0`
scalar_or_zero(s) == IF s = None \/ s = <<0>> THEN 0 ELSE s[1]

\* round(x, 2) of a double: to the nearest 1/100, an exact tie to the even
\* hundredth.  x counts 1/200ths, so a tie is an odd x and the hundredths
\* beside it are x - 1 and x + 1, one of which is a multiple of 4.
round2(x) ==
    IF x % 2 = 0 THEN x
    ELSE IF (x + 1) % 4 = 0 THEN x + 1 ELSE x - 1

-----------------------------------------------------------------------------
(* The inputs drawn by the model.                                          *)

Dates == { <<2023, 12, 31>>, <<2024, 1, 1>>, <<2024, 1, 7>>,
           <<2024, 1, 8>>, <<2024, 2, 1>> }

\* <<title, amount, category>>: 0.125 (a rounding tie) and 3.25
Samples == { <<"Snack", 25, "Food">>, <<"Bus", 650, "Transport">> }

\* the body of POST /expenses/: title, amount, category, date
ExpenseCreate ==
    { [title |-> s[1], amount |-> s[2], category |-> s[3], date |-> d] :
        s \in Samples, d \in Dates }

Years == {2023, 2024}
Months == 1..13
Weeks == 0..54
Todays == { <<2024, 1, 8>>, <<2024, 2, 1>>, <<2024, 3, 31>> }
OptDates == {None} \cup Dates
Ids == 1..(MaxExpenses + 1)
Sessions == {1, 2}

ids(rows) == { r.id : r \in rows }

-----------------------------------------------------------------------------
Init ==
    /\ store = {}
    /\ nextId = 1
    /\ resp = [op |-> "none"]
    /\ pc = [s \in Sessions |-> "idle"]
    /\ req = [s \in Sessions |-> 0]
    /\ sel = [s \in Sessions |-> None]
    /\ out = [s \in Sessions |-> "none"]

idle == UNCHANGED <<pc, req, sel, out>>

\* no request is being served: resp holds the response of the request in
\* flight until its session is closed
ready == resp.op = "none"

\* get_db: the `async with async_session()` block ends once the response is
\* out, and the next request gets a session of its own
get_db_exit ==
    /\ ~ready
    /\ resp' = [op |-> "none"]
    /\ UNCHANGED <<store, nextId>>
    /\ idle

\* a row built with title and category exchanged
insert_row_swapped(e, id) ==
    [id |-> id, title |-> e.category, amount |-> e.amount,
     category |-> e.title, date |-> e.date]

\* a row that takes the id 1 whatever the sequence hands out
insert_row_fixed_id(e, id) ==
    [id |-> 1, title |-> e.title, amount |-> e.amount,
     category |-> e.category, date |-> e.date]

\* models.Expense(**expense.dict()); db.add; commit: the id column is the
\* table's integer primary key, filled from its sequence on INSERT
insert_row(e, id) ==
    [id |-> id, title |-> e.title, amount |-> e.amount,
     category |-> e.category, date |-> e.date]

\* db.refresh(db_expense): the row stored under the object's primary key
refresh(rows, db_expense) == CHOOSE r \in rows : r.id = db_expense.id

create_expense(e) ==
    LET db_expense == insert_row(e, nextId)
    IN  /\ ready
        /\ nextId <= MaxExpenses
        /\ store' = store \cup {db_expense}
        /\ nextId' = nextId + 1
        /\ resp' = [op |-> "create", input |-> e,
                    result |-> refresh(store', db_expense)]
        /\ idle

\* `if from_date:` / `if to_date:`: a date object is always truthy, None is not
truthy(d) == d # None

\* query.where(Expense.date >= from_date), added only when from_date is given
where_from(rows, from_date) ==
    IF truthy(from_date) THEN { r \in rows : date_ge(r.date, from_date) } ELSE rows

\* the upper bound taken as exclusive
where_to_exclusive(rows, to_date) ==
    IF truthy(to_date) THEN { r \in rows : date_lt(r.date, to_date) } ELSE rows

\* query.where(Expense.date <= to_date), added only when to_date is given
where_to(rows, to_date) ==
    IF truthy(to_date) THEN { r \in rows : date_le(r.date, to_date) } ELSE rows

read_expenses(from_date, to_date) ==
    /\ ready
    /\ resp' = [op |-> "read", from_date |-> from_date, to_date |-> to_date,
                result |-> where_to(where_from(store, from_date), to_date)]
    /\ UNCHANGED <<store, nextId>>
    /\ idle

\* a lookup that drops the id condition and takes any stored row
select_by_id_any(rows, id) ==
    IF rows # {} THEN CHOOSE r \in rows : TRUE ELSE None

\* select(Expense).where(Expense.id == expense_id); scalar_one_or_none()
select_by_id(rows, id) ==
    IF \E r \in rows : r.id = id THEN CHOOSE r \in rows : r.id = id ELSE None

\* a DELETE whose condition is id <= <pk>
delete_row_upto(rows, expense) == { r \in rows : r.id > expense.id }

\* a delete that is never committed
delete_row_uncommitted(rows, expense) == rows

\* db.delete(expense); db.commit(): DELETE FROM expenses WHERE id = <pk>.
\* A row already gone matches nothing, which the ORM reports as a warning.
delete_row(rows, expense) == { r \in rows : r.id # expense.id }

delete_expense(expense_id) ==
    LET expense == select_by_id(store, expense_id)
    IN  /\ ready
        /\ IF expense = None
           THEN /\ resp' = [op |-> "delete", expense_id |-> expense_id,
                            status |-> 404, detail |-> "Expense not found"]
                /\ store' = store
           ELSE /\ store' = delete_row(store, expense)
                /\ resp' = [op |-> "delete", expense_id |-> expense_id,
                            status |-> 200, detail |-> "Expense deleted"]
        /\ UNCHANGED nextId
        /\ idle

\* .where(Expense.date >= start_date, Expense.date < end_date)
half_open(rows, start_date, end_date) ==
    { r \in rows : date_ge(r.date, start_date) /\ date_lt(r.date, end_date) }

\* end_date without the December case
monthly_end_no_rollover(year, month) == date(year, month + 1, 1)

\* end_date of monthly_summary
monthly_end(year, month) ==
    IF month = 12 THEN date(year + 1, 1, 1) ELSE date(year, month + 1, 1)

monthly_summary(year, month) ==
    LET start_date == date(year, month, 1)
        end_date   == monthly_end(year, month)
        rows       == half_open(store, start_date, end_date)
        total      == scalar_or_zero(sql_sum(rows))
    IN  /\ ready
        /\ IF start_date = ValueError \/ end_date = ValueError
           THEN resp' = [op |-> "monthly", year |-> year, month |-> month,
                         status |-> 500]
           ELSE resp' = [op |-> "monthly", year |-> year, month |-> month,
                         status |-> 200, rows |-> rows,
                         total_expense |-> round2(total)]
        /\ UNCHANGED <<store, nextId>>
        /\ idle

\* week 0 taken as seven days long when January 1 is a Monday
calc_julian_full_week_0(year, week_of_year, day_of_week) ==
    LET first_weekday == weekday(date(year, 1, 1))
        week_0_length == 7 - first_weekday
    IN  IF week_of_year = 0
        THEN 1 + day_of_week - first_weekday
        ELSE 1 + week_0_length + 7 * (week_of_year - 1) + day_of_week

\* _strptime._calc_julian_from_U_or_W with week_starts_Mon (the %W directive)
calc_julian(year, week_of_year, day_of_week) ==
    LET first_weekday == weekday(date(year, 1, 1))
        week_0_length == (7 - first_weekday) % 7
    IN  IF week_of_year = 0
        THEN 1 + day_of_week - first_weekday
        ELSE 1 + week_0_length + 7 * (week_of_year - 1) + day_of_week

\* datetime.strptime(f"{year}-W{week}-1", "%Y-W%W-%w").date().
\* %Y takes exactly four digits, %W takes 5[0-3]|[0-4]\d|\d and the text
\* must match to its end; %w "1" is Monday, weekday 0.
strptime_week(year, week) ==
    IF ~(year \in 1000..9999 /\ week \in 0..53) THEN ValueError
    ELSE LET j  == calc_julian(year, week, 0)
             y  == IF j <= 0 THEN year - 1 ELSE year
             jj == IF j <= 0 THEN j + (IF is_leap(y) THEN 366 ELSE 365) ELSE j
         IN  fromordinal((jj - 1) + toordinal(date(y, 1, 1)))

weekly_summary(year, week) ==
    LET start_date == strptime_week(year, week)
        end_date   == plus_days(start_date, 7)
        rows       == half_open(store, start_date, end_date)
        total      == scalar_or_zero(sql_sum(rows))
    IN  /\ ready
        /\ IF start_date = ValueError
           THEN resp' = [op |-> "weekly", year |-> year, week |-> week,
                         status |-> 500]
           ELSE resp' = [op |-> "weekly", year |-> year, week |-> week,
                         status |-> 200, start_date |-> start_date, rows |-> rows,
                         total_expense |-> round2(total)]
        /\ UNCHANGED <<store, nextId>>
        /\ idle

first_day_this_month(today) == date(today[1], today[2], 1)
\* one day too many taken off
last_day_last_month_off_by_one(today) == plus_days(first_day_this_month(today), -2)

last_day_last_month(today) == plus_days(first_day_this_month(today), -1)
first_day_last_month(today) ==
    date(last_day_last_month(today)[1], last_day_last_month(today)[2], 1)

\* the upper bound taken as exclusive, as in the other two summaries
last_month_rows_exclusive(rows, today) ==
    { r \in rows : /\ date_ge(r.date, first_day_last_month(today))
                   /\ date_lt(r.date, last_day_last_month(today)) }

\* .where(Expense.date >= first_day_last_month, Expense.date <= last_day_last_month)
last_month_rows(rows, today) ==
    { r \in rows : /\ date_ge(r.date, first_day_last_month(today))
                   /\ date_le(r.date, last_day_last_month(today)) }

\* select(category, sum(amount)) ... group_by(category): one result row for
\* each category among the selected rows
group_by_category(rows) ==
    { <<c, SumAmount({ r \in rows : r.category = c })>> :
        c \in { r.category : r \in rows } }

category_summary_last_month(today) ==
    LET rows    == last_month_rows(store, today)
        results == group_by_category(rows)
    IN  /\ ready
        /\ resp' = [op |-> "category", today |-> today,
                    month |-> <<first_day_last_month(today)[1],
                                first_day_last_month(today)[2]>>,
                    rows |-> rows,
                    category_wise_total |->
                        { [category |-> g[1], total |-> round2(g[2])] :
                            g \in results }]
        /\ UNCHANGED <<store, nextId>>
        /\ idle

Next ==
    \/ \E e \in ExpenseCreate : create_expense(e)
    \/ \E f \in OptDates, t \in OptDates : read_expenses(f, t)
    \/ \E i \in Ids : delete_expense(i)
    \/ \E y \in Years, m \in Months : monthly_summary(y, m)
    \/ \E y \in Years, w \in Weeks : weekly_summary(y, w)
    \/ \E t \in Todays : category_summary_last_month(t)
    \/ get_db_exit

Spec == Init /\ [][Next]_vars

-----------------------------------------------------------------------------
(* Two DELETE /expenses/{id} requests served at once, each in a session of *)
(* its own: the lookup (lines 63-66) and the delete with its commit (lines *)
(* 67-69) are separate awaits, and the event loop may run the other        *)
(* request between them.                                                   *)

delete_select(s, expense_id) ==
    /\ pc[s] = "idle"
    /\ req' = [req EXCEPT ![s] = expense_id]
    /\ sel' = [sel EXCEPT ![s] = select_by_id(store, expense_id)]
    /\ IF sel'[s] = None
       THEN /\ out' = [out EXCEPT ![s] = "Expense not found"]
            /\ pc' = [pc EXCEPT ![s] = "done"]
       ELSE /\ out' = out
            /\ pc' = [pc EXCEPT ![s] = "selected"]
    /\ UNCHANGED <<store, nextId, resp>>

delete_commit(s) ==
    /\ pc[s] = "selected"
    /\ store' = delete_row(store, sel[s])
    /\ out' = [out EXCEPT ![s] = "Expense deleted"]
    /\ pc' = [pc EXCEPT ![s] = "done"]
    /\ UNCHANGED <<nextId, resp, req, sel>>

\* the rows created while the two deletions are studied
ConcCreate == { e \in ExpenseCreate : e.date = <<2024, 1, 1>> }

NextConc ==
    \/ \E e \in ConcCreate : create_expense(e)
    \/ get_db_exit
    \/ \E s \in Sessions, i \in Ids : delete_select(s, i)
    \/ \E s \in Sessions : delete_commit(s)

SpecConc == Init /\ [][NextConc]_vars

-----------------------------------------------------------------------------
(* The calendar as the properties below speak of it, stated apart from the *)
(* ordinal arithmetic of the handlers.                                     *)

\* a is an earlier calendar day than b
Before(a, b) ==
    \/ a[1] < b[1]
    \/ a[1] = b[1] /\ a[2] < b[2]
    \/ a[1] = b[1] /\ a[2] = b[2] /\ a[3] < b[3]

NotAfter(a, b) == a = b \/ Before(a, b)

\* the day of the week by Sakamoto's rule: 0 = Sunday, 1 = Monday
DayOfWeek(dt) ==
    LET t == <<0, 3, 2, 5, 0, 3, 5, 1, 4, 6, 2, 4>>
        y == IF dt[2] < 3 THEN dt[1] - 1 ELSE dt[1]
    IN  (y + (y \div 4) - (y \div 100) + (y \div 400) + t[dt[2]] + dt[3]) % 7

IsMonday(dt) == DayOfWeek(dt) = 1

\* the first Monday of a year
FirstMonday(year) ==
    CHOOSE dt \in { <<year, 1, k>> : k \in 1..7 } : IsMonday(dt)

\* the first day of the month after (year, month)
NextMonthStart(year, month) ==
    IF month = 12 THEN <<year + 1, 1, 1>> ELSE <<year, month + 1, 1>>

\* the stored rows dated in the month (year, month): start <= date < end
RowsOfMonth(year, month) ==
    { r \in store : /\ NotAfter(<<year, month, 1>>, r.date)
                    /\ Before(r.date, NextMonthStart(year, month)) }

\* the <<year, month>> before the month of today
PreviousMonth(today) ==
    IF today[2] = 1 THEN <<today[1] - 1, 12>> ELSE <<today[1], today[2] - 1>>

\* the stored rows from the first to the last day of the month before today's
RowsOfPreviousMonth(today) ==
    { r \in store : <<r.date[1], r.date[2]>> = PreviousMonth(today) }

\* the stored rows of the seven days that start on start_date
RowsOfWeek(start_date) ==
    { r \in store : /\ NotAfter(start_date, r.date)
                    /\ toordinal(r.date) - toordinal(start_date) < 7 }

RECURSIVE SumTotals(_)
SumTotals(groups) ==
    IF groups = {} THEN 0
    ELSE LET g == CHOOSE x \in groups : TRUE
         IN  g[2] + SumTotals(groups \ {g})

-----------------------------------------------------------------------------
\* C1: the record create_expense returns carries the four submitted field
\* values and an integer id >= 1 given by the system, and it is among the
\* records that read_expenses without from_date and to_date returns.
C1_CreateThenList ==
    resp.op = "create" =>
        /\ resp.result.id \in Nat /\ resp.result.id >= 1
        /\ resp.result.title = resp.input.title
        /\ resp.result.amount = resp.input.amount
        /\ resp.result.category = resp.input.category
        /\ resp.result.date = resp.input.date
        /\ resp.result \in where_to(where_from(store, None), None)

\* a create that follows an earlier create and a delete
C1_Witness ==
    /\ resp.op = "create"
    /\ resp.result.id = 2
    /\ Cardinality(store) = 1

\* C2: read_expenses returns exactly the stored records inside the inclusive
\* bounds, each bound applying only when it is supplied.
C2_ListFilter ==
    resp.op = "read" =>
        resp.result =
            { r \in store :
                /\ (resp.from_date = None \/ NotAfter(resp.from_date, r.date))
                /\ (resp.to_date = None \/ NotAfter(r.date, resp.to_date)) }

\* both bounds given, a record dated on from_date and one dated on to_date
\* returned
C2_Witness ==
    /\ resp.op = "read"
    /\ resp.from_date # None /\ resp.to_date # None
    /\ resp.from_date # resp.to_date
    /\ \E r \in resp.result : r.date = resp.from_date
    /\ \E r \in resp.result : r.date = resp.to_date

\* C3: deleting an id that is stored answers 200 "Expense deleted", removes
\* that record and no other, leaves every other record as it was, and the id
\* is in no listing afterwards (ids already handed out never come back).
C3_DeleteExisting ==
    [][ /\ (ready /\ resp'.op = "delete" /\ resp'.expense_id \in ids(store)) =>
              /\ resp'.status = 200
              /\ resp'.detail = "Expense deleted"
              /\ store' = { r \in store : r.id # resp'.expense_id }
              /\ \A f \in OptDates, t \in OptDates :
                    resp'.expense_id \notin ids(where_to(where_from(store', f), t))
        /\ \A i \in 1..(nextId - 1) : i \notin ids(store) => i \notin ids(store')
      ]_vars

\* a delete that succeeded and left another record in the store
C3_Witness ==
    /\ resp.op = "delete"
    /\ resp.status = 200
    /\ store # {}

\* C4: deleting an id that is not stored answers 404 and leaves the stored
\* records as they were.
C4_DeleteMissing ==
    [][ (ready /\ resp'.op = "delete" /\ resp'.expense_id \notin ids(store)) =>
            /\ resp'.status = 404
            /\ resp'.detail # "Expense deleted"
            /\ store' = store
      ]_vars

\* a delete of an id that was created and deleted before, other rows stored
C4_Witness ==
    /\ resp.op = "delete"
    /\ resp.status = 404
    /\ resp.expense_id < nextId
    /\ store # {}

\* C5 as stated: total_expense is the sum of the amounts of the month's rows.
C5_MonthlyUnrounded ==
    (resp.op = "monthly" /\ resp.month \in 1..12) =>
        /\ resp.status = 200
        /\ resp.total_expense = SumAmount(RowsOfMonth(resp.year, resp.month))

\* C5 amended: total_expense is that sum rounded to two decimals.
C5_MonthlyRounded ==
    (resp.op = "monthly" /\ resp.month \in 1..12) =>
        /\ resp.status = 200
        /\ resp.rows = RowsOfMonth(resp.year, resp.month)
        /\ resp.total_expense = round2(SumAmount(RowsOfMonth(resp.year, resp.month)))
        /\ (resp.rows = {} => resp.total_expense = 0)

\* December: a row on the last day counted, a row on January 1 not counted
C5_Witness ==
    /\ resp.op = "monthly" /\ resp.status = 200
    /\ resp.month = 12
    /\ \E r \in resp.rows : r.date = <<resp.year, 12, 31>>
    /\ \E r \in store \ resp.rows : r.date = <<resp.year + 1, 1, 1>>
    /\ resp.total_expense > 0

\* C6 as stated: one entry for each category of the previous month's rows,
\* its total the sum of their amounts.
C6_CategoryUnrounded ==
    resp.op = "category" =>
        /\ resp.rows = RowsOfPreviousMonth(resp.today)
        /\ resp.category_wise_total =
              { [category |-> c,
                 total |-> SumAmount({ r \in RowsOfPreviousMonth(resp.today) :
                                        r.category = c })] :
                  c \in { r.category : r \in RowsOfPreviousMonth(resp.today) } }

\* C6 amended: each total is that sum rounded to two decimals.
C6_CategoryRounded ==
    resp.op = "category" =>
        /\ resp.rows = RowsOfPreviousMonth(resp.today)
        /\ resp.category_wise_total =
              { [category |-> c,
                 total |-> round2(SumAmount({ r \in RowsOfPreviousMonth(resp.today) :
                                               r.category = c }))] :
                  c \in { r.category : r \in RowsOfPreviousMonth(resp.today) } }
        /\ Cardinality(resp.category_wise_total) =
              Cardinality({ r.category : r \in RowsOfPreviousMonth(resp.today) })

\* called in January: a row of December 31 grouped, a row of January 1 left
\* out, and so a stored category without an entry
C6_Witness ==
    /\ resp.op = "category"
    /\ resp.today[2] = 1
    /\ \E r \in resp.rows : r.date = <<resp.today[1] - 1, 12, 31>>
    /\ \E r \in store \ resp.rows :
          /\ r.date = <<resp.today[1], 1, 1>>
          /\ \A e \in resp.category_wise_total : e.category # r.category

\* C7 as stated: start_date is the Monday 7 * (week - 1) days after the first
\* Monday of the year, and total_expense is the sum over the seven days from it.
C7_WeeklyAsStated ==
    (resp.op = "weekly" /\ resp.status = 200) =>
        /\ IsMonday(resp.start_date)
        /\ resp.start_date = plus_days(FirstMonday(resp.year), 7 * (resp.week - 1))
        /\ resp.total_expense = SumAmount(RowsOfWeek(resp.start_date))

\* C7 amended: as stated for week >= 1 and for week 0 of a year that does not
\* begin on a Monday; week 0 of a year that begins on a Monday starts on
\* January 1 like week 1; the total is rounded to two decimals.  The handler
\* accepts exactly the weeks 0..53 of a four-digit year.
C7_WeeklyAmended ==
    resp.op = "weekly" =>
        /\ resp.status = 200 <=> resp.week \in 0..53
        /\ resp.status = 200 =>
              /\ IsMonday(resp.start_date)
              /\ resp.start_date =
                    IF resp.week = 0 /\ IsMonday(<<resp.year, 1, 1>>)
                    THEN <<resp.year, 1, 1>>
                    ELSE plus_days(FirstMonday(resp.year), 7 * (resp.week - 1))
              /\ resp.rows = RowsOfWeek(resp.start_date)
              /\ resp.total_expense = round2(SumAmount(RowsOfWeek(resp.start_date)))
              /\ (resp.rows = {} => resp.total_expense = 0)

\* a week with a row on its Monday and a row on the Monday after it
C7_Witness ==
    /\ resp.op = "weekly" /\ resp.status = 200
    /\ resp.week >= 1
    /\ \E r \in resp.rows : r.date = resp.start_date
    /\ \E r \in store \ resp.rows : r.date = plus_days(resp.start_date, 7)

\* C8: no two stored records share an id, a record that stays stored keeps
\* all five values, and a record enters the store only under an id no stored
\* record has.
C8_IdUniqueStable ==
    [][ /\ \A r1 \in store', r2 \in store' : r1.id = r2.id => r1 = r2
        /\ \A r \in store : r.id \in ids(store') => r \in store'
        /\ \A r \in store' \ store : r.id \notin ids(store)
      ]_vars

\* two stored records that differ in nothing but the id
C8_Witness ==
    \E r1 \in store, r2 \in store :
        /\ r1.id # r2.id
        /\ r1.title = r2.title /\ r1.amount = r2.amount
        /\ r1.category = r2.category /\ r1.date = r2.date

\* both requests have ended, they named one id, and the record was stored
\* when the first lookup ran
BothDeleted(s, t) ==
    /\ s # t
    /\ pc[s] = "done" /\ pc[t] = "done"
    /\ req[s] = req[t]
    /\ (sel[s] # None \/ sel[t] # None)

\* C9 as stated: exactly one of the two requests answers "Expense deleted"
\* and the other ends in 404.
C9_ExactlyOneConfirms ==
    \A s \in Sessions, t \in Sessions :
        BothDeleted(s, t) =>
            \/ out[s] = "Expense deleted" /\ out[t] = "Expense not found"
            \/ out[t] = "Expense deleted" /\ out[s] = "Expense not found"

\* C9 amended: at least one request answers "Expense deleted" and the record
\* is gone; a request answers "Expense deleted" exactly when its lookup found
\* the record, that is when it ran before any delete-plus-commit of it, and
\* ends in 404 otherwise.
C9_AtLeastOneConfirms ==
    \A s \in Sessions, t \in Sessions :
        BothDeleted(s, t) =>
            /\ out[s] = "Expense deleted" \/ out[t] = "Expense deleted"
            /\ req[s] \notin ids(store)
            /\ \A u \in {s, t} :
                  /\ out[u] \in {"Expense deleted", "Expense not found"}
                  /\ out[u] = "Expense deleted" <=> sel[u] # None

\* the two lookups both ran before either delete: both requests confirm
C9_Witness ==
    /\ BothDeleted(1, 2)
    /\ out[1] = "Expense deleted"
    /\ out[2] = "Expense deleted"

\* C10: the rows category_summary_last_month selects are the rows
\* monthly_summary selects for the previous month, and the category sums
\* before rounding add up to the monthly sum before rounding.
C10_CategoryMatchesMonthly ==
    resp.op = "category" =>
        LET year  == resp.month[1]
            month == resp.month[2]
            rows  == half_open(store, date(year, month, 1), monthly_end(year, month))
        IN  /\ <<year, month>> = PreviousMonth(resp.today)
            /\ resp.rows = rows
            /\ SumTotals(group_by_category(resp.rows)) = scalar_or_zero(sql_sum(rows))

\* a row on the last day of the previous month selected by both, a row on
\* the first day of this month by neither
C10_Witness ==
    /\ resp.op = "category"
    /\ \E r \in resp.rows : r.date = last_day_last_month(resp.today)
    /\ \E r \in store \ resp.rows : r.date = first_day_this_month(resp.today)
    /\ Cardinality(resp.category_wise_total) = 1

====
